---------------------------- MODULE Spec2Model ----------------------------
(***************************************************************************)
(* Model of the execution-chain readiness probe: the poll loop (update),   *)
(* one evaluation cycle (isReady) with its two JSON-RPC requests, the hex  *)
(* codec, the block tracker, the readiness state and the two HTTP routes.  *)
(*                                                                         *)
(* Strings are sequences of one-character strings: "0x5a" is               *)
(* <<"0","x","5","a">>.  Time is counted in whole seconds.  Numbers are    *)
(* mathematical integers; the 64-bit width of the program's integers shows *)
(* in the range errors of the parsers (a count of significant hex digits). *)
(***************************************************************************)
EXTENDS Integers, Sequences, FiniteSets, TLC

(***************************************************************************)
(* Bounds of the model.                                                    *)
(***************************************************************************)
\* unix time, in seconds, at which the process starts
StartTime == 1000
\* seconds of run time that are explored
MaxElapsed == 5
\* the --timeout option (seconds a request may block before it fails)
Timeout == 2
\* largest block height used to probe SyncInfo.distance
MaxHeight == 10
\* longest string over HexAlphabet given to the hex decoders
MaxLen == 4
\* seconds of run time within which two updaters side by side begin cycles
MaxElapsedTwo == 1
\* seconds of run time within which cycles begin when the steps inside the
\* state's methods are followed
MaxElapsedReaders == 2

(***************************************************************************)
(* Program constants.                                                      *)
(***************************************************************************)
\* checkAge: age > 300*time.Second
FreshnessWindow == 300
\* the bitSize of strconv.ParseUint and strconv.ParseInt
BitSize == 64
\* the hex digits of a value of BitSize bits
Uint64HexDigits == BitSize \div 4
\* time.Sleep(time.Second) in update
PollInterval == 1
\* the stall threshold of the block tracker, in seconds: the time without a
\* higher block number after which HealthCheck reports a stall
StallThreshold == 2

None == "none"
Updaters == {1, 2}
\* the connections on which requests come in; net/http serves each in a
\* goroutine of its own
Conns == {1, 2}

(***************************************************************************)
(* Hex codec.                                                              *)
(***************************************************************************)
HexChars == <<"0", "1", "2", "3", "4", "5", "6", "7", "8", "9",
              "a", "b", "c", "d", "e", "f">>

\* value of one digit in base 16, -1 for a character that is no hex digit
\* (strconv lowers the character, so upper case digits count)
HexVal(c) ==
    CASE c = "0" -> 0 [] c = "1" -> 1 [] c = "2" -> 2 [] c = "3" -> 3
      [] c = "4" -> 4 [] c = "5" -> 5 [] c = "6" -> 6 [] c = "7" -> 7
      [] c = "8" -> 8 [] c = "9" -> 9
      [] c \in {"a", "A"} -> 10 [] c \in {"b", "B"} -> 11
      [] c \in {"c", "C"} -> 12 [] c \in {"d", "D"} -> 13
      [] c \in {"e", "E"} -> 14 [] c \in {"f", "F"} -> 15
      [] OTHER -> -1

RECURSIVE HexValue(_)
HexValue(s) ==
    IF s = <<>> THEN 0
    ELSE 16 * HexValue(SubSeq(s, 1, Len(s) - 1)) + HexVal(s[Len(s)])

RECURSIVE StripZeros(_)
StripZeros(s) ==
    IF s # <<>> /\ s[1] = "0" THEN StripZeros(Tail(s)) ELSE s

\* strconv.ParseUint(s, 16, 64): a syntax error for the empty string and for
\* any character that is no hex digit, a range error for a value of 2^64 or
\* more (more than 16 significant digits)
ParseUint(s) ==
    IF s = <<>> \/ \E i \in 1..Len(s) : HexVal(s[i]) < 0
    THEN [ok |-> FALSE, val |-> 0]
    ELSE IF Len(StripZeros(s)) > Uint64HexDigits
    THEN [ok |-> FALSE, val |-> 0]
    ELSE [ok |-> TRUE, val |-> HexValue(s)]

\* strconv.ParseInt(s, 16, 64): an optional sign, then ParseUint; a range
\* error for a magnitude of 2^63 or more (2^63 itself passes when negative)
\* (either failure gives the same result, so the range is looked at first
\* and the value of a string out of range is never computed)
ParseInt(s) ==
    IF s = <<>> THEN [ok |-> FALSE, val |-> 0]
    ELSE LET neg  == s[1] = "-"
             rest == IF s[1] \in {"+", "-"} THEN Tail(s) ELSE s
             un   == ParseUint(rest)
             sig  == StripZeros(rest)
             big  == Len(sig) = Uint64HexDigits /\ HexVal(sig[1]) >= 8
             min  == sig = <<"8">> \o [i \in 1..(Uint64HexDigits - 1) |-> "0"]
         IN  IF big /\ ~(neg /\ min) THEN [ok |-> FALSE, val |-> 0]
             ELSE IF ~un.ok THEN [ok |-> FALSE, val |-> 0]
             ELSE [ok |-> TRUE, val |-> IF neg THEN 0 - un.val ELSE un.val]

\* strings.TrimLeft(s, "0x"): drops every leading character that is in the
\* cutset {'0', 'x'}
RECURSIVE TrimLeft0x(_)
TrimLeft0x(s) ==
    IF s # <<>> /\ s[1] \in {"0", "x"} THEN TrimLeft0x(Tail(s)) ELSE s

\* strings.TrimPrefix(s, "0x"): drops one leading "0x"
TrimPrefix0x(s) ==
    IF Len(s) >= 2 /\ s[1] = "0" /\ s[2] = "x" THEN SubSeq(s, 3, Len(s)) ELSE s

\* mutant: the "0x" prefix is not cut before the digits are parsed
parseUintFromHexNoTrim(hex) ==
    IF hex = <<>> THEN 0
    ELSE LET r == ParseUint(hex)
         IN  IF ~r.ok THEN 0 ELSE r.val

parseUintFromHex(hex) ==
    IF hex = <<>> THEN 0
    ELSE LET trimmed == TrimPrefix0x(hex)
         IN  IF trimmed = <<>> THEN 0
             ELSE LET r == ParseUint(trimmed)
                  IN  IF ~r.ok THEN 0 ELSE r.val

\* The node's encoding of a quantity: "0x" and the hex digits with no leading
\* zero, zero as "0x0".
RECURSIVE HexDigitsOf(_)
HexDigitsOf(n) ==
    IF n < 16 THEN <<HexChars[n + 1]>>
    ELSE Append(HexDigitsOf(n \div 16), HexChars[(n % 16) + 1])

ToHex(n) == <<"0", "x">> \o HexDigitsOf(n)

(***************************************************************************)
(* Errors: the kind of the taxonomy and the numbers its message renders.   *)
(***************************************************************************)
Err(kind, a, b) == [kind |-> kind, a |-> a, b |-> b]

NoError == Err("nil", 0, 0)
\* client.Do failed (a = 0) or "incorrect response status code: %d" (a = status)
TransportError(status) == Err("TransportError", status, 0)
\* the error of json.Unmarshal
ProtocolError == Err("ProtocolError", 0, 0)
\* "syncing is true, not expected"
AmbiguousSyncStatus == Err("AmbiguousSyncStatus", 0, 0)
\* "syncing, distance %d blocks (tolerance: %d)"
SyncLag(dist, tolerance) == Err("SyncLag", dist, tolerance)
\* "can not parse block number: %w" (a = 1), "can not parse block timestamp: %w" (a = 2)
BlockDecodeError(which) == Err("BlockDecodeError", which, 0)
\* "latest block is too old: %s"
StaleBlock(age) == Err("StaleBlock", age, 0)
\* the tracker's verdict
StallDetected(elapsed) == Err("StallDetected", elapsed, 0)

(***************************************************************************)
(* JSON bodies and their decoding by encoding/json.                        *)
(* A body is its shape: "invalid" (no JSON object), "absent" (an object    *)
(* with no result member), or the JSON type of the result member: "null",  *)
(* "bool", "string", "number", "object".  The members of a result object   *)
(* are a function from member names to values [t, s]: t the JSON type and  *)
(* s the text of a string.                                                 *)
(***************************************************************************)
Body(shape, b, fields) == [shape |-> shape, bool |-> b, fields |-> fields]

JString(s) == [t |-> "string", s |-> s]
JNumber == [t |-> "number", s |-> <<>>]
JNull == [t |-> "null", s |-> <<>>]

\* one string field of a struct: a missing member and null leave the zero
\* value "", a string sets it, any other type is an UnmarshalTypeError
UnmarshalStringField(fields, name) ==
    IF name \notin DOMAIN fields THEN [ok |-> TRUE, val |-> <<>>]
    ELSE CASE fields[name].t = "string" -> [ok |-> TRUE, val |-> fields[name].s]
           [] fields[name].t = "null" -> [ok |-> TRUE, val |-> <<>>]
           [] OTHER -> [ok |-> FALSE, val |-> <<>>]

\* json.Unmarshal(body, new(JsonResultSync))
UnmarshalSync(body) ==
    LET c == UnmarshalStringField(body.fields, "currentBlock")
        h == UnmarshalStringField(body.fields, "highestBlock")
        zero == [CurrentBlockHex |-> <<>>, HighestBlockHex |-> <<>>]
    IN  CASE body.shape \in {"absent", "null"} -> [ok |-> TRUE, val |-> zero]
          [] body.shape = "object" ->
                [ok |-> c.ok /\ h.ok,
                 val |-> [CurrentBlockHex |-> c.val, HighestBlockHex |-> h.val]]
          [] OTHER -> [ok |-> FALSE, val |-> zero]

\* json.Unmarshal(body, new(JsonResultBool))
UnmarshalBool(body) ==
    CASE body.shape \in {"absent", "null"} -> [ok |-> TRUE, val |-> FALSE]
      [] body.shape = "bool" -> [ok |-> TRUE, val |-> body.bool]
      [] OTHER -> [ok |-> FALSE, val |-> FALSE]

\* json.Unmarshal(body, new(JsonResultBlock))
UnmarshalBlock(body) ==
    LET t == UnmarshalStringField(body.fields, "timestamp")
        n == UnmarshalStringField(body.fields, "number")
        zero == [Timestamp |-> <<>>, Number |-> <<>>]
    IN  CASE body.shape \in {"absent", "null"} -> [ok |-> TRUE, val |-> zero]
          [] body.shape = "object" ->
                [ok |-> t.ok /\ n.ok,
                 val |-> [Timestamp |-> t.val, Number |-> n.val]]
          [] OTHER -> [ok |-> FALSE, val |-> zero]

(***************************************************************************)
(* The network: what one outbound request can come back with.              *)
(* net "fail" is a failure of client.Do (refused, reset, timed out);       *)
(* elapsed is the time the request blocked: the whole timeout for a        *)
(* request that timed out, less than a second (0) for any other reply.     *)
(***************************************************************************)
Reply(net, elapsed, status, body) ==
    [net |-> net, elapsed |-> elapsed, status |-> status, body |-> body]

NoFields == <<>>
InvalidBody == Body("invalid", FALSE, NoFields)
AbsentBody == Body("absent", FALSE, NoFields)
NullBody == Body("null", FALSE, NoFields)
BoolBody(b) == Body("bool", b, NoFields)
StringBody == Body("string", FALSE, NoFields)

\* {"result": {"currentBlock": ..., "highestBlock": ...}}
SyncBody(cur, high) ==
    Body("object", FALSE, ("currentBlock" :> cur) @@ ("highestBlock" :> high))

\* {"result": {"number": ..., "timestamp": ...}}
BlockBody(number, timestamp) ==
    Body("object", FALSE, ("number" :> number) @@ ("timestamp" :> timestamp))

Http(status, body) == Reply("http", 0, status, body)

\* mutant: the status code is not looked at
requestAnyStatus(reply) ==
    IF reply.net = "fail" THEN [err |-> TransportError(0), body |-> InvalidBody]
    ELSE [err |-> NoError, body |-> reply.body]

\* request: the error and the body it returns for a reply
request(reply) ==
    IF reply.net = "fail" THEN [err |-> TransportError(0), body |-> InvalidBody]
    ELSE IF reply.status # 200
    THEN [err |-> TransportError(reply.status), body |-> InvalidBody]
    ELSE [err |-> NoError, body |-> reply.body]

(***************************************************************************)
(* SyncInfo and Block.                                                     *)
(***************************************************************************)
\* the nil *SyncInfo
NilSyncInfo == [nil |-> TRUE, CurrentBlockHex |-> <<>>, HighestBlockHex |-> <<>>]

currentBlock(s) == parseUintFromHex(s.CurrentBlockHex)

highestBlock(s) == parseUintFromHex(s.HighestBlockHex)

\* mutant: the difference with no guard (in Go it would wrap)
distanceUnclamped(s) == highestBlock(s) - currentBlock(s)

distance(s) ==
    LET h == highestBlock(s)
        c == currentBlock(s)
    IN  IF h < c THEN 0 ELSE h - c

\* mutant: a boolean true is taken as "not syncing"
getSyncingTrueAsSynced(reply) ==
    LET r == request(reply)
        resultSync == UnmarshalSync(r.body)
        resultBool == UnmarshalBool(r.body)
    IN  IF r.err # NoError THEN [syncInfo |-> NilSyncInfo, err |-> r.err]
        ELSE IF resultSync.ok
        THEN [syncInfo |-> [nil |-> FALSE,
                            CurrentBlockHex |-> resultSync.val.CurrentBlockHex,
                            HighestBlockHex |-> resultSync.val.HighestBlockHex],
              err |-> NoError]
        ELSE IF ~resultBool.ok THEN [syncInfo |-> NilSyncInfo, err |-> ProtocolError]
        ELSE [syncInfo |-> NilSyncInfo, err |-> NoError]

\* getSyncing: the structured form first, then the boolean form
getSyncing(reply) ==
    LET r == request(reply)
        resultSync == UnmarshalSync(r.body)
        resultBool == UnmarshalBool(r.body)
    IN  IF r.err # NoError THEN [syncInfo |-> NilSyncInfo, err |-> r.err]
        ELSE IF resultSync.ok
        THEN [syncInfo |-> [nil |-> FALSE,
                            CurrentBlockHex |-> resultSync.val.CurrentBlockHex,
                            HighestBlockHex |-> resultSync.val.HighestBlockHex],
              err |-> NoError]
        ELSE IF ~resultBool.ok THEN [syncInfo |-> NilSyncInfo, err |-> ProtocolError]
        ELSE IF resultBool.val
        THEN [syncInfo |-> NilSyncInfo, err |-> AmbiguousSyncStatus]
        ELSE [syncInfo |-> NilSyncInfo, err |-> NoError]

ZeroBlock == [Timestamp |-> <<>>, Number |-> <<>>]

getLatestBlock(reply) ==
    LET r == request(reply)
        result == UnmarshalBlock(r.body)
    IN  IF r.err # NoError THEN [block |-> ZeroBlock, err |-> r.err]
        ELSE IF ~result.ok THEN [block |-> ZeroBlock, err |-> ProtocolError]
        ELSE [block |-> result.val, err |-> NoError]

\* Block.time: unix seconds
blockTime(b) == ParseInt(TrimLeft0x(b.Timestamp))

\* Block.number
blockNumber(b) == ParseUint(TrimLeft0x(b.Number))

\* the largest time.Duration, 2^63 - 1 nanoseconds, in whole seconds:
\* 9223372036, written in two parts as it is beyond the integers of TLC
MaxDurationSeconds == 9223372 * 1000 + 36

\* age seconds are more than the largest time.Duration
BeyondMaxDuration(age) ==
    \/ age \div 1000 > 9223372
    \/ age \div 1000 = 9223372 /\ age % 1000 > 36

\* the first seconds value for which time.Unix has no time: 2^63 less the
\* seconds from year 1 to 1970 (62135596800) that time.Unix adds
FirstUnixWrap == <<"7", "f", "f", "f", "f", "f", "f", "1",
                   "8", "8", "6", "e", "0", "9", "0", "0">>

\* digits a and b of equal length: a is no less than b
HexAtLeast(a, b) ==
    \/ \A i \in 1..Len(a) : HexVal(a[i]) = HexVal(b[i])
    \/ \E i \in 1..Len(a) :
          /\ HexVal(a[i]) > HexVal(b[i])
          /\ \A j \in 1..(i - 1) : HexVal(a[j]) = HexVal(b[j])

\* time.Unix(sec, 0) for the seconds ParseInt read from s: sec plus the
\* seconds from year 1 to 1970 is beyond 2^63 - 1 and wraps
UnixWraps(s) ==
    LET sig == StripZeros(IF s # <<>> /\ s[1] = "+" THEN Tail(s) ELSE s)
    IN  /\ s # <<>>
        /\ s[1] # "-"
        /\ Len(sig) = Uint64HexDigits
        /\ HexAtLeast(sig, FirstUnixWrap)

\* mutant: a block of exactly the window's age is stale
checkAgeAtWindow(b, t) ==
    LET created == blockTime(b)
        age == t - created.val
    IN  IF ~created.ok THEN BlockDecodeError(2)
        ELSE IF UnixWraps(TrimLeft0x(b.Timestamp)) THEN StaleBlock(MaxDurationSeconds)
        ELSE IF BeyondMaxDuration(age) THEN StaleBlock(MaxDurationSeconds)
        ELSE IF age >= FreshnessWindow THEN StaleBlock(age)
        ELSE NoError

\* Block.checkAge at time t.  The seconds go through time.Unix, which has no
\* time for the highest ones: they come out as a time far in the past.
\* time.Since gives no more than the largest Duration.
checkAge(b, t) ==
    LET created == blockTime(b)
        age == t - created.val
    IN  IF ~created.ok THEN BlockDecodeError(2)
        ELSE IF UnixWraps(TrimLeft0x(b.Timestamp)) THEN StaleBlock(MaxDurationSeconds)
        ELSE IF BeyondMaxDuration(age) THEN StaleBlock(MaxDurationSeconds)
        ELSE IF age > FreshnessWindow THEN StaleBlock(age)
        ELSE NoError

(***************************************************************************)
(* The block tracker (common.BlockTrack) and the readiness state           *)
(* (common.State).                                                         *)
(***************************************************************************)
NewBlockTrack(t) == [lastObservedNumber |-> -1, lastAdvanceTime |-> t]

HasObserved(bt) == bt.lastObservedNumber >= 0

AddBlock(bt, number, t) ==
    IF ~HasObserved(bt) \/ number > bt.lastObservedNumber
    THEN [lastObservedNumber |-> number, lastAdvanceTime |-> t]
    ELSE bt

HealthCheck(bt, t) ==
    IF t - bt.lastAdvanceTime > StallThreshold
    THEN StallDetected(t - bt.lastAdvanceTime)
    ELSE NoError

NewState == [healthy |-> FALSE, lastError |-> NoError]

SetHealthy(st) == [healthy |-> TRUE, lastError |-> NoError]

StateError(st, e) == [healthy |-> FALSE, lastError |-> e]

IsHealthy(st) == st.healthy

(***************************************************************************)
(* isReady, in its two halves: up to the sync-distance check, and from the *)
(* latest-block request on.                                                *)
(***************************************************************************)
\* mutant: a distance equal to the tolerance fails
isReadySyncAtTolerance(reply, syncTolerance) ==
    LET g == getSyncing(reply)
        dist == distance(g.syncInfo)
    IN  IF g.err # NoError THEN g
        ELSE IF ~g.syncInfo.nil /\ dist >= syncTolerance
        THEN [syncInfo |-> g.syncInfo, err |-> SyncLag(dist, syncTolerance)]
        ELSE g

\* lines 134-149: the error (or none) and the SyncInfo got
isReadySync(reply, syncTolerance) ==
    LET g == getSyncing(reply)
        dist == distance(g.syncInfo)
    IN  IF g.err # NoError THEN g
        ELSE IF ~g.syncInfo.nil /\ dist > syncTolerance
        THEN [syncInfo |-> g.syncInfo, err |-> SyncLag(dist, syncTolerance)]
        ELSE g

\* mutant: the liveness check is left out
isReadyBlockNoLiveness(bt, reply, t) ==
    LET g == getLatestBlock(reply)
        n == blockNumber(g.block)
        tracked == AddBlock(bt, n.val, t)
        aged == checkAge(g.block, t)
    IN  IF g.err # NoError THEN [err |-> g.err, block |-> g.block, bt |-> bt]
        ELSE IF ~n.ok THEN [err |-> BlockDecodeError(1), block |-> g.block, bt |-> bt]
        ELSE [err |-> aged, block |-> g.block, bt |-> tracked]

\* mutant: the age is checked before the number is fed to the tracker
isReadyBlockAgeFirst(bt, reply, t) ==
    LET g == getLatestBlock(reply)
        n == blockNumber(g.block)
        tracked == AddBlock(bt, n.val, t)
        aged == checkAge(g.block, t)
    IN  IF g.err # NoError THEN [err |-> g.err, block |-> g.block, bt |-> bt]
        ELSE IF ~n.ok THEN [err |-> BlockDecodeError(1), block |-> g.block, bt |-> bt]
        ELSE IF aged # NoError THEN [err |-> aged, block |-> g.block, bt |-> bt]
        ELSE [err |-> HealthCheck(tracked, t), block |-> g.block, bt |-> tracked]

\* mutant: the liveness check runs before the number is fed to the tracker
isReadyBlockCheckFirst(bt, reply, t) ==
    LET g == getLatestBlock(reply)
        n == blockNumber(g.block)
        tracked == AddBlock(bt, n.val, t)
        aged == checkAge(g.block, t)
    IN  IF g.err # NoError THEN [err |-> g.err, block |-> g.block, bt |-> bt]
        ELSE IF ~n.ok THEN [err |-> BlockDecodeError(1), block |-> g.block, bt |-> bt]
        ELSE IF aged # NoError THEN [err |-> aged, block |-> g.block, bt |-> tracked]
        ELSE [err |-> HealthCheck(bt, t), block |-> g.block, bt |-> tracked]

\* mutant: the liveness check runs before the age of the block is checked
isReadyBlockLivenessFirst(bt, reply, t) ==
    LET g == getLatestBlock(reply)
        n == blockNumber(g.block)
        tracked == AddBlock(bt, n.val, t)
        aged == checkAge(g.block, t)
        alive == HealthCheck(tracked, t)
    IN  IF g.err # NoError THEN [err |-> g.err, block |-> g.block, bt |-> bt]
        ELSE IF ~n.ok THEN [err |-> BlockDecodeError(1), block |-> g.block, bt |-> bt]
        ELSE IF alive # NoError THEN [err |-> alive, block |-> g.block, bt |-> tracked]
        ELSE [err |-> aged, block |-> g.block, bt |-> tracked]

\* mutant: a failed latest-block request still feeds the tracker, with the
\* zero number of the block it did not get
isReadyBlockFeedOnError(bt, reply, t) ==
    LET g == getLatestBlock(reply)
        n == blockNumber(g.block)
        tracked == AddBlock(bt, n.val, t)
        aged == checkAge(g.block, t)
    IN  IF g.err # NoError
        THEN [err |-> g.err, block |-> g.block, bt |-> AddBlock(bt, 0, t)]
        ELSE IF ~n.ok THEN [err |-> BlockDecodeError(1), block |-> g.block, bt |-> bt]
        ELSE IF aged # NoError THEN [err |-> aged, block |-> g.block, bt |-> tracked]
        ELSE [err |-> HealthCheck(tracked, t), block |-> g.block, bt |-> tracked]

\* lines 152-171 with the reply read at time t: the error (or none), the
\* block got and the tracker afterwards
isReadyBlock(bt, reply, t) ==
    LET g == getLatestBlock(reply)
        n == blockNumber(g.block)
        tracked == AddBlock(bt, n.val, t)
        aged == checkAge(g.block, t)
    IN  IF g.err # NoError THEN [err |-> g.err, block |-> g.block, bt |-> bt]
        ELSE IF ~n.ok THEN [err |-> BlockDecodeError(1), block |-> g.block, bt |-> bt]
        ELSE IF aged # NoError THEN [err |-> aged, block |-> g.block, bt |-> tracked]
        ELSE [err |-> HealthCheck(tracked, t), block |-> g.block, bt |-> tracked]

(***************************************************************************)
(* State.                                                                  *)
(***************************************************************************)
VARIABLES
    now,        \* the wall clock, unix seconds
    cfg,        \* the options: secret (engine-jwt given), syncTolerance, timeout
    pc,         \* per updater: "off", "sleep", "sync", "block", "judge", "record",
                \* and inside a write of the state "setflag", "seterr"
    token,      \* per updater: the bearer token of this cycle
    rpc,        \* per updater: the requests sent in this cycle
    reply,      \* per updater: the reply to the last request of this cycle
    syncInfo,   \* per updater: isReady's syncInfo
    block,      \* per updater: isReady's block
    err,        \* per updater: the error isReady returned (update's err)
    blockTrack, \* the package variable blockTrack
    state,      \* main's *common.State
    httpReq,    \* per connection: the inbound request being served, or None
    httpResp,   \* per connection: the response to its last request
    advance,    \* history: the last observation above all earlier ones
    probe,      \* a function under test with its arguments and result
    waitFrom,   \* per updater: when its sleep or its request in flight began
    mu,         \* who holds the mutex of the state
    written,    \* history: the writes of the state begun so far, and the
                \* write from which each field of the state has its value
    seen        \* per connection: what state.IsHealthy() returned to the
                \* handler of the request being served, if it has returned

vars == <<now, cfg, pc, token, rpc, reply, syncInfo, block, err, blockTrack,
          state, httpReq, httpResp, advance, probe, waitFrom, mu, written,
          seen>>

MaxTime == StartTime + MaxElapsed

(***************************************************************************)
(* Inputs.                                                                 *)
(***************************************************************************)
\* the options explored: without --execution.engine-jwt and with the default
\* --execution.sync-tolerance, and with a secret and a tolerance of 5 blocks,
\* both with a --timeout of Timeout seconds
Configs == {[secret |-> FALSE, syncTolerance |-> 0, timeout |-> Timeout],
            [secret |-> TRUE, syncTolerance |-> 5, timeout |-> Timeout]}

\* the same options, and each of them with --timeout 0 as well: the option
\* is taken as it is given, and an http.Client whose Timeout is not positive
\* has no time limit
LoopConfigs == Configs \cup {[c EXCEPT !.timeout = 0] : c \in Configs}

\* rp is a reply that updater u's http.Client can give: the failure after
\* elapsed seconds is the time limit of the client, which exists when the
\* timeout is positive
ClientGives(rp) == rp.elapsed > 0 => cfg.timeout = rp.elapsed

\* (currentBlock, highestBlock) reported while syncing
SyncPairs == {<<90, 100>>, <<94, 100>>, <<95, 100>>, <<100, 90>>}

SyncReplies ==
    {Reply("fail", 0, 0, InvalidBody), Reply("fail", Timeout, 0, InvalidBody),
     Http(500, InvalidBody), Http(200, InvalidBody), Http(200, AbsentBody),
     Http(200, NullBody), Http(200, StringBody),
     Http(200, BoolBody(TRUE)), Http(200, BoolBody(FALSE)),
     Http(200, SyncBody(JNumber, JString(ToHex(100))))}
    \cup {Http(200, SyncBody(JString(ToHex(p[1])), JString(ToHex(p[2])))) :
            p \in SyncPairs}

\* block numbers as the node sends them, and a malformed one
BlockNumbers == {ToHex(0), ToHex(10), ToHex(11), ToHex(12), <<"0", "x", "z">>}

\* age in seconds of the latest block when its reply is read
BlockAges == {0, 300, 301, 400}

Timestamps(t) == {ToHex(t - a) : a \in BlockAges} \cup {<<>>}

BlockReplies(t) ==
    {Reply("fail", 0, 0, InvalidBody), Reply("fail", Timeout, 0, InvalidBody),
     Http(500, InvalidBody), Http(200, InvalidBody), Http(200, NullBody)}
    \cup {Http(200, BlockBody(JString(n), JString(ts))) :
            n \in BlockNumbers, ts \in Timestamps(t)}

Routes == {"/ready", "/metrics"}

(***************************************************************************)
(* Initial states.                                                         *)
(***************************************************************************)
NoToken == [set |-> FALSE, iat |-> 0]

NoHttpResp == [route |-> None, status |-> 0, body |-> None]

NoReply == Reply(None, 0, 0, InvalidBody)

\* no block observed yet: the clock of the tracker runs from its construction
NoAdvance == [number |-> -1, at |-> StartTime]

NoProbe == [op |-> None, c |-> 0, h |-> 0, out |-> 0]

\* the mutex of the state: held by nobody, by updater u inside Error or
\* SetHealthy, by the handler of connection c inside IsHealthy
Free == [by |-> None, id |-> 0]

ByUpdate(u) == [by |-> "update", id |-> u]

ByHandler(c) == [by |-> "handler", id |-> c]

\* no write yet: both fields are as new(common.State) left them
NothingWritten == [writes |-> 0, healthy |-> 0, lastError |-> 0]
\* a handler before state.IsHealthy() has returned, and after it returned h
NotRead == [read |-> FALSE, healthy |-> FALSE]
Returned(h) == [read |-> TRUE, healthy |-> h]

\* main with options out of configs: new(common.State), then StartUpdater for
\* the updaters in started
BootWith(started, configs) ==
    /\ now = StartTime
    /\ cfg \in configs
    /\ pc = [u \in Updaters |-> IF u \in started THEN "sleep" ELSE "off"]
    /\ token = [u \in Updaters |-> NoToken]
    /\ rpc = [u \in Updaters |-> <<>>]
    /\ reply = [u \in Updaters |-> NoReply]
    /\ syncInfo = [u \in Updaters |-> NilSyncInfo]
    /\ block = [u \in Updaters |-> ZeroBlock]
    /\ err = [u \in Updaters |-> NoError]
    /\ blockTrack = NewBlockTrack(StartTime)
    /\ state = NewState
    /\ httpReq = [c \in Conns |-> None]
    /\ httpResp = [c \in Conns |-> NoHttpResp]
    /\ advance = NoAdvance
    /\ waitFrom = [u \in Updaters |-> StartTime]
    /\ mu = Free
    /\ written = NothingWritten
    /\ seen = [c \in Conns |-> NotRead]

Boot(started) == BootWith(started, Configs)

Init ==
    /\ Boot({1})
    /\ probe = NoProbe

(***************************************************************************)
(* The poll loop.                                                          *)
(***************************************************************************)
\* genToken(secret): a token issued at time t
genToken(t) == [set |-> TRUE, iat |-> t]

\* when a wait of d seconds that updater u began at waitFrom[u] is over: d
\* seconds after it began, or now when that is already past (the goroutine
\* goes on when it is scheduled, and the clock does not go back)
WaitEnds(u, d) == IF waitFrom[u] + d > now THEN waitFrom[u] + d ELSE now

\* one request as sent: its method and its Authorization header
Request(method, tok) == [method |-> method, bearer |-> tok]

\* mutant: the state is marked healthy as soon as the loop wakes
UpdateWakeOptimistic(u) ==
    /\ pc[u] = "sleep"
    /\ WaitEnds(u, PollInterval) <= MaxTime
    /\ now' = WaitEnds(u, PollInterval)
    /\ waitFrom' = [waitFrom EXCEPT ![u] = now']
    /\ token' = [token EXCEPT ![u] = IF cfg.secret THEN genToken(now') ELSE NoToken]
    /\ err' = [err EXCEPT ![u] = NoError]
    /\ pc' = [pc EXCEPT ![u] = "sync"]
    /\ state' = SetHealthy(state)
    /\ UNCHANGED <<cfg, rpc, reply, syncInfo, block, blockTrack, httpReq,
                   httpResp, advance, probe, mu, written, seen>>

\* update, lines 26-31: the sleep, then the token of the cycle
UpdateWake(u) ==
    /\ pc[u] = "sleep"
    /\ WaitEnds(u, PollInterval) <= MaxTime
    /\ now' = WaitEnds(u, PollInterval)
    /\ waitFrom' = [waitFrom EXCEPT ![u] = now']
    /\ token' = [token EXCEPT ![u] = IF cfg.secret THEN genToken(now') ELSE NoToken]
    /\ err' = [err EXCEPT ![u] = NoError]
    /\ pc' = [pc EXCEPT ![u] = "sync"]
    /\ UNCHANGED <<cfg, rpc, reply, syncInfo, block, blockTrack, state, httpReq,
                   httpResp, advance, probe, mu, written, seen>>

\* isReady, lines 134-149
GetSyncing(u) ==
    /\ pc[u] = "sync"
    /\ \E rp \in SyncReplies :
         LET r == isReadySync(rp, cfg.syncTolerance)
         IN  /\ ClientGives(rp)
             /\ WaitEnds(u, rp.elapsed) <= MaxTime
             /\ now' = WaitEnds(u, rp.elapsed)
             /\ waitFrom' = [waitFrom EXCEPT ![u] = now']
             /\ rpc' = [rpc EXCEPT ![u] = Append(@, Request("eth_syncing", token[u]))]
             /\ reply' = [reply EXCEPT ![u] = rp]
             /\ syncInfo' = [syncInfo EXCEPT ![u] = r.syncInfo]
             /\ err' = [err EXCEPT ![u] = r.err]
             /\ pc' = [pc EXCEPT ![u] = IF r.err = NoError THEN "block" ELSE "record"]
    /\ UNCHANGED <<cfg, token, block, blockTrack, state, httpReq, httpResp,
                   advance, probe, mu, written, seen>>

\* isReady, lines 152-171
GetLatestBlock(u) ==
    /\ pc[u] = "block"
    /\ \E elapsed \in {0, Timeout} :
         /\ WaitEnds(u, elapsed) <= MaxTime
         /\ \E rp \in BlockReplies(WaitEnds(u, elapsed)) :
              LET r == isReadyBlock(blockTrack, rp, WaitEnds(u, elapsed))
                  n == blockNumber(r.block)
                  got == getLatestBlock(rp).err = NoError /\ n.ok
              IN  /\ rp.elapsed = elapsed
                  /\ ClientGives(rp)
                  /\ now' = WaitEnds(u, elapsed)
                  /\ waitFrom' = [waitFrom EXCEPT ![u] = now']
                  /\ rpc' = [rpc EXCEPT ![u] =
                               Append(@, Request("eth_getBlockByNumber", token[u]))]
                  /\ reply' = [reply EXCEPT ![u] = rp]
                  /\ block' = [block EXCEPT ![u] = r.block]
                  /\ blockTrack' = r.bt
                  /\ err' = [err EXCEPT ![u] = r.err]
                  /\ advance' = IF got /\ n.val > advance.number
                                THEN [number |-> n.val, at |-> now']
                                ELSE advance
                  /\ pc' = [pc EXCEPT ![u] = "record"]
    /\ UNCHANGED <<cfg, token, syncInfo, state, httpReq, httpResp, probe, mu, written,
                   seen>>

\* mutant: the state turns healthy only after two good cycles in a row
UpdateRecordSticky(u) ==
    /\ pc[u] = "record"
    /\ state' = IF err[u] # NoError THEN StateError(state, err[u])
                ELSE IF state.lastError # NoError THEN StateError(state, NoError)
                ELSE SetHealthy(state)
    /\ pc' = [pc EXCEPT ![u] = "sleep"]
    /\ rpc' = [rpc EXCEPT ![u] = <<>>]
    /\ reply' = [reply EXCEPT ![u] = NoReply]
    /\ syncInfo' = [syncInfo EXCEPT ![u] = NilSyncInfo]
    /\ block' = [block EXCEPT ![u] = ZeroBlock]
    /\ waitFrom' = [waitFrom EXCEPT ![u] = now]
    /\ UNCHANGED <<now, cfg, token, err, blockTrack, httpReq, httpResp, advance,
                   probe, mu, written, seen>>

\* update, lines 34-38
UpdateRecord(u) ==
    /\ pc[u] = "record"
    /\ state' = IF err[u] # NoError THEN StateError(state, err[u]) ELSE SetHealthy(state)
    /\ pc' = [pc EXCEPT ![u] = "sleep"]
    /\ rpc' = [rpc EXCEPT ![u] = <<>>]
    /\ reply' = [reply EXCEPT ![u] = NoReply]
    /\ syncInfo' = [syncInfo EXCEPT ![u] = NilSyncInfo]
    /\ block' = [block EXCEPT ![u] = ZeroBlock]
    /\ waitFrom' = [waitFrom EXCEPT ![u] = now]
    /\ UNCHANGED <<now, cfg, token, err, blockTrack, httpReq, httpResp, advance,
                   probe, mu, written, seen>>

(***************************************************************************)
(* The HTTP routes.                                                        *)
(***************************************************************************)
\* an orchestrator's probe arrives on connection c; the requests of one
\* connection are served one after the other, those of different
\* connections side by side
HttpGet(c, route) ==
    /\ httpReq[c] = None
    /\ httpReq' = [httpReq EXCEPT ![c] = route]
    /\ httpResp' = [httpResp EXCEPT ![c] = NoHttpResp]
    /\ UNCHANGED <<now, cfg, pc, token, rpc, reply, syncInfo, block, err,
                   blockTrack, state, advance, probe, waitFrom, mu, written,
                   seen>>

\* mutant: the 503 header is not written
statusResponseNoHeader(healthy) ==
    IF healthy THEN [route |-> "/ready", status |-> 200, body |-> "OK"]
    ELSE [route |-> "/ready", status |-> 200, body |-> "NOT READY"]

\* statusHandler, lines 97-102: the answer, given what state.IsHealthy()
\* returned
statusResponse(healthy) ==
    IF healthy THEN [route |-> "/ready", status |-> 200, body |-> "OK"]
    ELSE [route |-> "/ready", status |-> 503, body |-> "NOT READY"]

\* metricsHandler, lines 106-110: the answer, given what state.IsHealthy()
\* returned
metricsResponse(healthy) ==
    LET ready == IF healthy THEN 1 ELSE 0
    IN  [route |-> "/metrics", status |-> 200,
         body |-> IF ready = 1 THEN "# TYPE ready gauge\nready 1\n"
                  ELSE "# TYPE ready gauge\nready 0\n"]

\* the call state.IsHealthy() of a handler (lines 97, 107), as one step: it
\* returns the flag as it is now; the handler has yet to write its answer,
\* and the poll loop may run in between
IsHealthyCall(c) ==
    /\ httpReq[c] # None
    /\ ~seen[c].read
    /\ seen' = [seen EXCEPT ![c] = Returned(IsHealthy(state))]
    /\ UNCHANGED <<now, cfg, pc, token, rpc, reply, syncInfo, block, err,
                   blockTrack, state, httpReq, httpResp, advance, probe, waitFrom,
                   mu, written>>

\* statusHandler after state.IsHealthy() has returned: lines 97-102
statusHandler(c) ==
    /\ httpReq[c] = "/ready"
    /\ seen[c].read
    /\ httpResp' = [httpResp EXCEPT ![c] = statusResponse(seen[c].healthy)]
    /\ httpReq' = [httpReq EXCEPT ![c] = None]
    /\ seen' = [seen EXCEPT ![c] = NotRead]
    /\ UNCHANGED <<now, cfg, pc, token, rpc, reply, syncInfo, block, err,
                   blockTrack, state, advance, probe, waitFrom, mu, written>>

\* metricsHandler after state.IsHealthy() has returned: lines 107-110
metricsHandler(c) ==
    /\ httpReq[c] = "/metrics"
    /\ seen[c].read
    /\ httpResp' = [httpResp EXCEPT ![c] = metricsResponse(seen[c].healthy)]
    /\ httpReq' = [httpReq EXCEPT ![c] = None]
    /\ seen' = [seen EXCEPT ![c] = NotRead]
    /\ UNCHANGED <<now, cfg, pc, token, rpc, reply, syncInfo, block, err,
                   blockTrack, state, advance, probe, waitFrom, mu, written>>

\* the connections whose requests Spec follows: a handler reads the state
\* and writes nothing another handler or the poll loop reads, so Spec, which
\* takes each call of the state's methods as one step, follows the requests
\* of one connection, the poll loop running between the handler's call of
\* IsHealthy and its answer; SpecReaders follows the handlers of all of
\* Conns side by side, step by step inside those methods
OneConn == {1}

Next ==
    \/ \E u \in Updaters : UpdateWake(u)
    \/ \E u \in Updaters : GetSyncing(u)
    \/ \E u \in Updaters : GetLatestBlock(u)
    \/ \E u \in Updaters : UpdateRecord(u)
    \/ \E c \in OneConn : \E route \in Routes : HttpGet(c, route)
    \/ \E c \in OneConn : IsHealthyCall(c)
    \/ \E c \in OneConn : statusHandler(c)
    \/ \E c \in OneConn : metricsHandler(c)

Spec == Init /\ [][Next]_vars

(***************************************************************************)
(* SyncInfo.distance on its own: heights c and h are encoded as the node   *)
(* encodes them and distance is applied to the SyncInfo that holds them.   *)
(***************************************************************************)
InitDistance ==
    /\ Boot({})
    /\ probe \in [op : {"distance"}, c : 0..MaxHeight, h : 0..MaxHeight, out : {-1}]

ApplyDistance ==
    /\ probe.op = "distance"
    /\ probe.out = -1
    /\ probe' = [probe EXCEPT !.out =
                    distance([nil |-> FALSE,
                              CurrentBlockHex |-> ToHex(probe.c),
                              HighestBlockHex |-> ToHex(probe.h)])]
    /\ UNCHANGED <<now, cfg, pc, token, rpc, reply, syncInfo, block, err,
                   blockTrack, state, httpReq, httpResp, advance, waitFrom, mu, written,
                   seen>>

SpecDistance == InitDistance /\ [][ApplyDistance]_vars

(***************************************************************************)
(* Properties.                                                             *)
(***************************************************************************)
\* the reply of updater u's last request failed in transport or status
FailedReply(u) == reply[u].net = "fail" \/ reply[u].status # 200

\* updater u has the reply to its sync-status request and nothing later
AfterSync(u) == pc[u] \in {"block", "record"} /\ Len(rpc[u]) = 1

\* updater u has the reply to its latest-block request
AfterBlock(u) == pc[u] = "record" /\ Len(rpc[u]) = 2

\* the latest block of updater u was decoded: body, number and timestamp
Decoded(u) ==
    /\ AfterBlock(u)
    /\ getLatestBlock(reply[u]).err = NoError
    /\ blockNumber(block[u]).ok
    /\ blockTime(block[u]).ok

\* C1: with a structured SyncInfo the cycle fails with SyncLag{distance,
\* tolerance} exactly when distance > syncTolerance, and then sends no second
\* request; otherwise it goes on to the latest-block request.
C1_SyncLagIffBeyondTolerance ==
    \A u \in Updaters :
        (pc[u] \in {"block", "record"} /\ ~syncInfo[u].nil) =>
            LET d == distance(syncInfo[u])
            IN  IF d > cfg.syncTolerance
                THEN /\ pc[u] = "record"
                     /\ Len(rpc[u]) = 1
                     /\ err[u] = SyncLag(d, cfg.syncTolerance)
                ELSE /\ err[u].kind # "SyncLag"
                     /\ \/ pc[u] = "block" /\ err[u] = NoError
                        \/ /\ Len(rpc[u]) = 2
                           /\ rpc[u][2].method = "eth_getBlockByNumber"

\* currentBlock 0x5a, highestBlock 0x64, tolerance 5: SyncLag{10, 5}
C1_Witness ==
    /\ pc[1] = "record"
    /\ cfg.syncTolerance = 5
    /\ syncInfo[1] = [nil |-> FALSE, CurrentBlockHex |-> <<"0", "x", "5", "a">>,
                      HighestBlockHex |-> <<"0", "x", "6", "4">>]
    /\ err[1] = SyncLag(10, 5)

\* C2: distance is highestBlock - currentBlock when highestBlock >=
\* currentBlock and 0 otherwise (both zero included); it never exceeds
\* highestBlock, so it never wraps.
C2_DistanceClamped ==
    (probe.op = "distance" /\ probe.out # -1) =>
        /\ probe.out = IF probe.h >= probe.c THEN probe.h - probe.c ELSE 0
        /\ 0 <= probe.out /\ probe.out <= probe.h

C2_Witness ==
    /\ probe.op = "distance"
    /\ probe.h < probe.c
    /\ probe.out = 0

\* the sync-status reply of updater u is the boolean b
BoolReply(u, b) ==
    /\ AfterSync(u)
    /\ ~FailedReply(u)
    /\ reply[u].body.shape = "bool"
    /\ reply[u].body.bool = b

\* C3: a sync-status reply of true fails the cycle with AmbiguousSyncStatus
\* and the poll loop then leaves the state unhealthy; a reply of false gives
\* no SyncInfo and the cycle goes on to the latest block with no error.
C3_TrueIsAmbiguous ==
    \A u \in Updaters :
        /\ BoolReply(u, TRUE) =>
              /\ pc[u] = "record"
              /\ err[u] = AmbiguousSyncStatus
              /\ syncInfo[u].nil
        /\ BoolReply(u, FALSE) =>
              /\ pc[u] = "block"
              /\ err[u] = NoError
              /\ syncInfo[u].nil
        /\ (pc[u] = "sleep" /\ err[u] = AmbiguousSyncStatus) =>
              /\ ~state.healthy
              /\ state.lastError = AmbiguousSyncStatus
        /\ (AfterBlock(u) /\ syncInfo[u].nil) => err[u].kind # "SyncLag"

C3_Witness ==
    /\ pc[1] = "sleep"
    /\ err[1] = AmbiguousSyncStatus
    /\ state = [healthy |-> FALSE, lastError |-> AmbiguousSyncStatus]

\* C4: once the latest block is decoded, the cycle fails with StaleBlock{age}
\* exactly when now - timestamp > 300 seconds; an age of 300 or less passes
\* on to the liveness check.
C4_StaleIffOlderThanWindow ==
    \A u \in Updaters :
        Decoded(u) =>
            LET age == now - blockTime(block[u]).val
            IN  IF age > 300 THEN err[u] = StaleBlock(age)
                ELSE err[u].kind \in {"nil", "StallDetected"}

\* not syncing, latest block 400 seconds old
C4_Witness ==
    /\ Decoded(1)
    /\ syncInfo[1].nil
    /\ now - blockTime(block[1]).val = 400
    /\ err[1] = StaleBlock(400)

\* C5: a request that fails in transport or comes back with a status other
\* than 200 fails the cycle with TransportError; after a failed first request
\* no second one is sent; once the cycle is recorded the state is unhealthy,
\* /ready answers 503 "NOT READY" and /metrics answers ready 0.
C5_TransportErrorAborts ==
    \A u \in Updaters :
        /\ (pc[u] \in {"block", "record"} /\ Len(rpc[u]) >= 1 /\ FailedReply(u)) =>
              /\ pc[u] = "record"
              /\ err[u] = TransportError(IF reply[u].net = "fail" THEN 0
                                         ELSE reply[u].status)
        /\ (pc[u] = "sleep" /\ err[u].kind = "TransportError") =>
              /\ ~state.healthy
              /\ state.lastError = err[u]
              /\ statusResponse(IsHealthy(state)) =
                    [route |-> "/ready", status |-> 503, body |-> "NOT READY"]
              /\ metricsResponse(IsHealthy(state)) =
                    [route |-> "/metrics", status |-> 200,
                     body |-> "# TYPE ready gauge\nready 0\n"]

\* HTTP 500 on a request, then GET /ready served
C5_Witness ==
    /\ pc[1] = "sleep"
    /\ err[1] = TransportError(500)
    /\ httpResp[1] = [route |-> "/ready", status |-> 503, body |-> "NOT READY"]

\* the latest-block reply of updater u gave a block number to the tracker
Observed(u) ==
    /\ AfterBlock(u)
    /\ getLatestBlock(reply[u]).err = NoError
    /\ blockNumber(block[u]).ok

\* C6: a cycle whose block number is above every earlier one never reports
\* StallDetected; a cycle that reaches the liveness check reports
\* StallDetected{elapsed} exactly when more than the stall threshold has
\* passed since the last such advance (or since the tracker was made).
C6_StallIffNoAdvanceWithinThreshold ==
    \A u \in Updaters :
        /\ (Observed(u) /\ advance = [number |-> blockNumber(block[u]).val, at |-> now])
              => err[u].kind # "StallDetected"
        /\ (Decoded(u) /\ now - blockTime(block[u]).val <= FreshnessWindow) =>
              IF now - advance.at > StallThreshold
              THEN err[u] = StallDetected(now - advance.at)
              ELSE err[u] = NoError

\* block 10 seen again longer than the threshold after it was first seen
C6_Witness ==
    /\ Decoded(1)
    /\ blockNumber(block[1]).val = 10
    /\ advance.number = 10
    /\ err[1].kind = "StallDetected"

\* C7: feeding a number to the tracker sets lastObservedNumber to it and
\* lastAdvanceTime to now when there was no number before or the number is
\* greater, and changes nothing otherwise (a repeated or lower number is no
\* error of its own); so lastAdvanceTime is always the time of the last
\* strictly increasing observation, or of construction.
C7_ObserveFrame ==
    /\ [](blockTrack = [lastObservedNumber |-> advance.number,
                        lastAdvanceTime |-> advance.at])
    /\ [][\A u \in Updaters :
            (pc[u] = "block" /\ Observed(u)') =>
                LET n == blockNumber(block'[u]).val
                    t == blockTime(block'[u])
                IN  IF ~HasObserved(blockTrack) \/ n > blockTrack.lastObservedNumber
                    THEN blockTrack' = [lastObservedNumber |-> n,
                                        lastAdvanceTime |-> now']
                    ELSE /\ blockTrack' = blockTrack
                         /\ (/\ t.ok
                             /\ now' - t.val <= FreshnessWindow
                             /\ now' - blockTrack.lastAdvanceTime <= StallThreshold)
                                => err'[u] = NoError]_vars

\* a lower number was fed after a higher one and the tracker kept the higher
C7_Witness ==
    /\ Observed(1)
    /\ blockNumber(block[1]).val = 10
    /\ blockTrack.lastObservedNumber = 11
    /\ blockTrack.lastAdvanceTime < now
    /\ err[1] = NoError

\* C8: the cycle that feeds the tracker its first number does not report
\* StallDetected, and StallDetected is never reported before more than the
\* stall threshold has passed since the tracker was made.
C8_FirstObservationNeverStalls ==
    /\ [](\A u \in Updaters :
            err[u].kind = "StallDetected" =>
                /\ err[u].a > StallThreshold
                /\ now - StartTime > StallThreshold)
    /\ [][\A u \in Updaters :
            (pc[u] = "block" /\ ~HasObserved(blockTrack) /\ Observed(u)')
                => err'[u].kind # "StallDetected"]_vars

\* the first number arrives later than the threshold after start and passes
C8_Witness ==
    /\ Decoded(1)
    /\ now - StartTime > StallThreshold
    /\ advance.at = now
    /\ blockTrack = [lastObservedNumber |-> 10, lastAdvanceTime |-> now]
    /\ err[1] = NoError

\* C9: after every completed cycle the state is healthy with no error when
\* that cycle's isReady returned no error, and unhealthy with that cycle's
\* error otherwise, whatever the cycles before did.
C9_StateFollowsLastCycle ==
    \A u \in Updaters :
        (pc[u] = "sleep" /\ now > StartTime) =>
            state = IF err[u] = NoError
                    THEN [healthy |-> TRUE, lastError |-> NoError]
                    ELSE [healthy |-> FALSE, lastError |-> err[u]]

\* a failed cycle right after the state was served as healthy
C9_Witness ==
    /\ pc[1] = "sleep"
    /\ err[1] # NoError
    /\ state = [healthy |-> FALSE, lastError |-> err[1]]
    /\ httpResp[1] = [route |-> "/ready", status |-> 200, body |-> "OK"]

\* C10: /ready answers 200 "OK" when the state is healthy at the moment the
\* handler reads it, whatever the poll loop writes before the answer goes
\* out, and 503 "NOT READY" otherwise; /metrics answers ready 1 when it is
\* healthy at that moment and ready 0 otherwise; a handler reads the state
\* once for a request, answers only after that read, and neither the read
\* nor the answer changes the state.
C10_HandlersReportState ==
    /\ [](\A c \in Conns : seen[c].read => httpReq[c] # None)
    /\ [][\A c \in Conns :
          /\ seen'[c] # seen[c] =>
                /\ state' = state
                /\ \/ /\ ~seen[c].read
                      /\ httpReq[c] # None
                      /\ seen'[c] = Returned(IsHealthy(state))
                   \/ /\ seen[c].read
                      /\ seen'[c] = NotRead
                      /\ httpReq'[c] = None
          /\ (httpReq[c] = "/ready" /\ httpReq'[c] = None) =>
                /\ seen[c].read
                /\ httpResp'[c] =
                      IF seen[c].healthy
                      THEN [route |-> "/ready", status |-> 200, body |-> "OK"]
                      ELSE [route |-> "/ready", status |-> 503,
                            body |-> "NOT READY"]
                /\ state' = state
          /\ (httpReq[c] = "/metrics" /\ httpReq'[c] = None) =>
                /\ seen[c].read
                /\ httpResp'[c] =
                      [route |-> "/metrics", status |-> 200,
                       body |-> IF seen[c].healthy
                                THEN "# TYPE ready gauge\nready 1\n"
                                ELSE "# TYPE ready gauge\nready 0\n"]
                /\ state' = state]_vars

\* the handler of /metrics read the state while it was healthy and has yet
\* to answer; the poll loop has since recorded a failed cycle
C10_Witness ==
    /\ httpReq[1] = "/metrics"
    /\ seen[1] = Returned(TRUE)
    /\ ~state.healthy
    /\ state.lastError # NoError

\* a step in which updater u ends a cycle: update, lines 34-38
CycleEnds(u) == pc[u] = "record" /\ pc'[u] = "sleep"

\* C11: from process start until the first cycle has completed the state is
\* the initial, unhealthy one (through the first sleep and the first
\* requests), every handler that reads it then answers not ready, and the
\* state turns healthy only at the end of a cycle whose isReady returned no
\* error after both requests.
C11_UnhealthyUntilFirstCycle ==
    /\ [](now = StartTime => ~IsHealthy(state))
    /\ []((\A u \in Updaters : pc[u] \in {"off", "sleep"}) /\ now = StartTime
              => state = NewState)
    /\ [][/\ state' # state => \E u \in Updaters : CycleEnds(u)
          /\ (IsHealthy(state') /\ ~IsHealthy(state)) =>
                \E u \in Updaters :
                    CycleEnds(u) /\ err[u] = NoError /\ Len(rpc[u]) = 2
          /\ \A c \in Conns :
                (state = NewState /\ ~seen[c].read /\ seen'[c].read) =>
                    seen'[c] = Returned(FALSE)
          /\ \A c \in Conns :
                (state = NewState /\ httpReq[c] # None /\ httpReq'[c] = None) =>
                    httpResp'[c] \in {[route |-> "/ready", status |-> 503,
                                       body |-> "NOT READY"],
                                      [route |-> "/metrics", status |-> 200,
                                       body |-> "# TYPE ready gauge\nready 0\n"]}]_vars

\* the first cycle is about to end well; /ready was answered 503 before
C11_Witness ==
    /\ state = NewState
    /\ pc[1] = "record"
    /\ err[1] = NoError
    /\ Len(rpc[1]) = 2
    /\ httpResp[1] = [route |-> "/ready", status |-> 503, body |-> "NOT READY"]

(***************************************************************************)
(* The state under its mutex.  Error and SetHealthy lock, write healthy,   *)
(* write lastError and unlock; IsHealthy locks, reads healthy and unlocks. *)
(* The poll loop and the handlers of two connections run side by side, and *)
(* each step inside a method is a step of its own.                         *)
(***************************************************************************)
\* mutant: Error and SetHealthy write without taking the mutex
StateLockSkipped(u) ==
    /\ pc[u] = "record"
    /\ pc' = [pc EXCEPT ![u] = "setflag"]
    /\ written' = [written EXCEPT !.writes = @ + 1]
    /\ UNCHANGED <<now, cfg, token, rpc, reply, syncInfo, block, err, blockTrack,
                   state, httpReq, httpResp, advance, probe, waitFrom, mu,
                   seen>>

\* update, lines 34-38: the call of state.Error or state.SetHealthy, which
\* waits for the mutex and takes it
StateLock(u) ==
    /\ pc[u] = "record"
    /\ mu = Free
    /\ mu' = ByUpdate(u)
    /\ pc' = [pc EXCEPT ![u] = "setflag"]
    /\ written' = [written EXCEPT !.writes = @ + 1]
    /\ UNCHANGED <<now, cfg, token, rpc, reply, syncInfo, block, err, blockTrack,
                   state, httpReq, httpResp, advance, probe, waitFrom, seen>>

\* Error sets healthy to false, SetHealthy to true
StateWriteHealthy(u) ==
    /\ pc[u] = "setflag"
    /\ state' = [state EXCEPT !.healthy = (err[u] = NoError)]
    /\ written' = [written EXCEPT !.healthy = written.writes]
    /\ pc' = [pc EXCEPT ![u] = "seterr"]
    /\ UNCHANGED <<now, cfg, token, rpc, reply, syncInfo, block, err, blockTrack,
                   httpReq, httpResp, advance, probe, waitFrom, mu, seen>>

\* Error stores the error, SetHealthy clears it; the mutex is given back and
\* the body of the loop is over
StateWriteLastError(u) ==
    /\ pc[u] = "seterr"
    /\ state' = [state EXCEPT !.lastError = err[u]]
    /\ written' = [written EXCEPT !.lastError = written.writes]
    /\ mu' = IF mu = ByUpdate(u) THEN Free ELSE mu
    /\ pc' = [pc EXCEPT ![u] = "sleep"]
    /\ rpc' = [rpc EXCEPT ![u] = <<>>]
    /\ reply' = [reply EXCEPT ![u] = NoReply]
    /\ syncInfo' = [syncInfo EXCEPT ![u] = NilSyncInfo]
    /\ block' = [block EXCEPT ![u] = ZeroBlock]
    /\ waitFrom' = [waitFrom EXCEPT ![u] = now]
    /\ UNCHANGED <<now, cfg, token, err, blockTrack, httpReq, httpResp, advance,
                   probe, seen>>

\* a handler calls state.IsHealthy, which waits for the mutex and takes it
IsHealthyLock(c) ==
    /\ httpReq[c] # None
    /\ ~seen[c].read
    /\ mu = Free
    /\ mu' = ByHandler(c)
    /\ UNCHANGED <<now, cfg, pc, token, rpc, reply, syncInfo, block, err,
                   blockTrack, state, httpReq, httpResp, advance, probe, waitFrom,
                   written, seen>>

\* IsHealthy reads healthy, gives the mutex back and returns; the handler
\* then goes on to its answer (statusHandler, metricsHandler)
IsHealthyRead(c) ==
    /\ mu = ByHandler(c)
    /\ mu' = Free
    /\ seen' = [seen EXCEPT ![c] = Returned(state.healthy)]
    /\ UNCHANGED <<now, cfg, pc, token, rpc, reply, syncInfo, block, err,
                   blockTrack, state, httpReq, httpResp, advance, probe, waitFrom,
                   written>>

\* the route asked for on connection c: an orchestrator's readiness probe
\* on one connection, a metrics scraper on the other
RouteOf(c) == IF c = 1 THEN "/ready" ELSE "/metrics"

\* the cycles that begin by StartTime + MaxElapsedReaders, each to its end,
\* and requests on every connection
NextReaders ==
    \/ \E u \in Updaters :
          \/ UpdateWake(u) /\ now' <= StartTime + MaxElapsedReaders
          \/ GetSyncing(u)
          \/ GetLatestBlock(u)
          \/ StateLock(u)
          \/ StateWriteHealthy(u)
          \/ StateWriteLastError(u)
    \/ \E c \in Conns :
          \/ HttpGet(c, RouteOf(c))
          \/ IsHealthyLock(c)
          \/ IsHealthyRead(c)
          \/ statusHandler(c)
          \/ metricsHandler(c)

SpecReaders == Init /\ [][NextReaders]_vars

\* the answer resp reports the state as ready
SaysReady(resp) ==
    \/ resp = [route |-> "/ready", status |-> 200, body |-> "OK"]
    \/ resp = [route |-> "/metrics", status |-> 200,
               body |-> "# TYPE ready gauge\nready 1\n"]

\* both fields of the state have their value from one write, or from
\* new(common.State), and are that write's whole result
WholeSnapshot ==
    /\ written.healthy = written.lastError
    /\ written.healthy = 0 => state = NewState
    /\ IsHealthy(state) => state.lastError = NoError
    /\ (~IsHealthy(state) /\ written.healthy > 0) => state.lastError # NoError

\* C12: however the steps of the poll loop's writes and of the reads of the
\* handlers on two connections interleave, the state a reader finds inside
\* IsHealthy is the initial one or the whole result of one finished write:
\* never healthy with an error, never unhealthy with the error (or with the
\* cleared error) of another write than the one that set healthy; IsHealthy
\* returns the flag of that snapshot and leaves the state as it is, the
\* handler answers, after the mutex is free again and whatever was written
\* since, from what IsHealthy returned, and a finished write leaves what one
\* call of Error or SetHealthy leaves.
C12_SnapshotsAreWholeWrites ==
    /\ [](\A c \in Conns : mu = ByHandler(c) => WholeSnapshot)
    /\ [][\A c \in Conns :
            (mu = ByHandler(c) /\ mu' # ByHandler(c)) =>
                /\ state' = state
                /\ mu' = Free
                /\ seen'[c] = Returned(IsHealthy(state))]_vars
    /\ [][\A c \in Conns :
            (httpReq[c] # None /\ httpReq'[c] = None) =>
                /\ seen[c].read
                /\ mu # ByHandler(c)
                /\ state' = state
                /\ SaysReady(httpResp'[c]) <=> seen[c].healthy]_vars
    /\ [][\A u \in Updaters :
            (pc[u] = "seterr" /\ pc'[u] = "sleep") =>
                /\ state' = IF err[u] = NoError THEN SetHealthy(state)
                            ELSE StateError(state, err[u])
                /\ written'.healthy = written'.lastError]_vars

\* the handler of /metrics on connection 2 is inside IsHealthy and finds the
\* healthy state of the first cycle, while the handler of /ready on
\* connection 1 and the poll loop, whose second cycle failed, wait for the
\* mutex
C12_Witness ==
    /\ mu = ByHandler(2)
    /\ httpReq[1] # None
    /\ ~seen[1].read
    /\ pc[1] = "record"
    /\ err[1] # NoError
    /\ written.writes = 1
    /\ state = [healthy |-> TRUE, lastError |-> NoError]

(***************************************************************************)
(* The hex decoders on their own: parseUintFromHex, Block.number and       *)
(* Block.time applied to one string each.                                  *)
(***************************************************************************)
\* characters the strings are made of: digits, a letter digit in both
\* cases, the prefix letter, a letter that is no digit, a sign
HexAlphabet == {"0", "1", "a", "A", "x", "g", "-"}

Strings(n) == UNION {[1..k -> HexAlphabet] : k \in 0..n}

Zeros(k) == [i \in 1..k |-> "0"]

\* strings around the width of 64 bits: a small value behind 16 leading
\* zeros, 2^64 with and without prefix, and for Block.time 2^63
LongInputs(op) ==
    {<<"0", "x">> \o Zeros(Uint64HexDigits) \o <<"1", "a">>,
     <<"0", "x", "1">> \o Zeros(Uint64HexDigits),
     <<"1">> \o Zeros(Uint64HexDigits)}
    \cup (IF op = "time"
          THEN {<<"0", "x", "8">> \o Zeros(Uint64HexDigits - 1)}
          ELSE {})

HexOps == {"parseUintFromHex", "number", "time"}

InitHex ==
    /\ Boot({})
    /\ \E op \in HexOps : \E s \in Strings(MaxLen) \cup LongInputs(op) :
         probe = [op |-> op, s |-> s, done |-> FALSE, ok |-> FALSE, val |-> 0]

ApplyParseUintFromHex ==
    /\ probe.op = "parseUintFromHex"
    /\ ~probe.done
    /\ probe' = [probe EXCEPT !.done = TRUE, !.ok = TRUE,
                              !.val = parseUintFromHex(probe.s)]
    /\ UNCHANGED <<now, cfg, pc, token, rpc, reply, syncInfo, block, err,
                   blockTrack, state, httpReq, httpResp, advance, waitFrom, mu, written,
                   seen>>

\* block.number() on a Block whose Number is the string
ApplyNumber ==
    /\ probe.op = "number"
    /\ ~probe.done
    /\ LET r == blockNumber([Number |-> probe.s, Timestamp |-> <<>>])
       IN  probe' = [probe EXCEPT !.done = TRUE, !.ok = r.ok, !.val = r.val]
    /\ UNCHANGED <<now, cfg, pc, token, rpc, reply, syncInfo, block, err,
                   blockTrack, state, httpReq, httpResp, advance, waitFrom, mu, written,
                   seen>>

\* block.time() on a Block whose Timestamp is the string
ApplyTime ==
    /\ probe.op = "time"
    /\ ~probe.done
    /\ LET r == blockTime([Number |-> <<>>, Timestamp |-> probe.s])
       IN  probe' = [probe EXCEPT !.done = TRUE, !.ok = r.ok, !.val = r.val]
    /\ UNCHANGED <<now, cfg, pc, token, rpc, reply, syncInfo, block, err,
                   blockTrack, state, httpReq, httpResp, advance, waitFrom, mu, written,
                   seen>>

NextHex == ApplyParseUintFromHex \/ ApplyNumber \/ ApplyTime

SpecHex == InitHex /\ [][NextHex]_vars

\* the hex digits, in either case
HexDigits == {"0", "1", "2", "3", "4", "5", "6", "7", "8", "9",
              "a", "b", "c", "d", "e", "f", "A", "B", "C", "D", "E", "F"}

HasPrefix0x(s) == Len(s) >= 2 /\ s[1] = "0" /\ s[2] = "x"

\* what follows the "0x" prefix, the whole string when there is no prefix
AfterPrefix(s) == IF HasPrefix0x(s) THEN SubSeq(s, 3, Len(s)) ELSE s

AllHexDigits(d) == \A i \in 1..Len(d) : d[i] \in HexDigits

\* number of digits from the first one that is not "0"
Significant(d) ==
    IF \E i \in 1..Len(d) : d[i] # "0"
    THEN Len(d) + 1 - (CHOOSE i \in 1..Len(d) :
                           d[i] # "0" /\ \A j \in 1..(i - 1) : d[j] = "0")
    ELSE 0

\* C13: parseUintFromHex returns a value for every string: 0 for the empty
\* string, for a string with nothing after the optional "0x", and for a
\* string with a character that is no hex digit; for hex digits with or
\* without "0x" it returns their value in base 16 ("0x1a" gives 26), a value
\* being one that fits the 64 bits of the result (digits beyond that give 0).
C13_ParseUintFromHexTotal ==
    (probe.op = "parseUintFromHex" /\ probe.done) =>
        LET d == AfterPrefix(probe.s)
        IN  /\ probe.ok
            /\ (d = <<>> \/ ~AllHexDigits(d)) => probe.val = 0
            /\ (d # <<>> /\ AllHexDigits(d)) =>
                   probe.val = IF Significant(d) <= Uint64HexDigits
                               THEN HexValue(d) ELSE 0
            /\ probe.s = <<"0", "x", "1", "a">> => probe.val = 26

\* "0x1a" decoded to 26
C13_Witness ==
    /\ probe.op = "parseUintFromHex"
    /\ probe.s = <<"0", "x", "1", "a">>
    /\ probe.done
    /\ probe.val = 26

(***************************************************************************)
(* Two updaters in one process: StartUpdater called twice with the same    *)
(* state, each goroutine running update against its own node.  The two     *)
(* goroutines sleep and wait for their nodes at the same time, and nothing *)
(* in isReady keeps one of them out while the other is between AddBlock    *)
(* and HealthCheck, so the second half of isReady is taken in two steps,   *)
(* with pc[u] = "judge" between them.  What AddBlock and HealthCheck do    *)
(* inside is one step each.                                                *)
(***************************************************************************)
InitTwoTargets ==
    /\ Boot({1, 2})
    /\ probe = NoProbe

\* lines 152-160 with the reply rp read at time t: the request, the number
\* and AddBlock; returned tells that isReady returned an error here
isReadyAddBlock(bt, rp, t) ==
    LET g == getLatestBlock(rp)
        n == blockNumber(g.block)
    IN  IF g.err # NoError
        THEN [returned |-> TRUE, err |-> g.err, block |-> g.block, bt |-> bt]
        ELSE IF ~n.ok
        THEN [returned |-> TRUE, err |-> BlockDecodeError(1), block |-> g.block,
              bt |-> bt]
        ELSE [returned |-> FALSE, err |-> NoError, block |-> g.block,
              bt |-> AddBlock(bt, n.val, t)]

\* lines 162-171 at time t: checkAge of block b, then HealthCheck of the
\* tracker as it is by then
isReadyHealthCheck(bt, b, t) ==
    LET aged == checkAge(b, t)
    IN  IF aged # NoError THEN aged ELSE HealthCheck(bt, t)

\* isReady, lines 152-160
AddLatestBlock(u) ==
    /\ pc[u] = "block"
    /\ \E elapsed \in {0, Timeout} :
         /\ WaitEnds(u, elapsed) <= MaxTime
         /\ \E rp \in BlockReplies(WaitEnds(u, elapsed)) :
              LET r == isReadyAddBlock(blockTrack, rp, WaitEnds(u, elapsed))
                  n == blockNumber(r.block)
              IN  /\ rp.elapsed = elapsed
                  /\ ClientGives(rp)
                  /\ now' = WaitEnds(u, elapsed)
                  /\ waitFrom' = [waitFrom EXCEPT ![u] = now']
                  /\ rpc' = [rpc EXCEPT ![u] =
                               Append(@, Request("eth_getBlockByNumber", token[u]))]
                  /\ reply' = [reply EXCEPT ![u] = rp]
                  /\ block' = [block EXCEPT ![u] = r.block]
                  /\ blockTrack' = r.bt
                  /\ err' = [err EXCEPT ![u] = r.err]
                  /\ advance' = IF ~r.returned /\ n.val > advance.number
                                THEN [number |-> n.val, at |-> now']
                                ELSE advance
                  /\ pc' = [pc EXCEPT ![u] = IF r.returned THEN "record" ELSE "judge"]
    /\ UNCHANGED <<cfg, token, syncInfo, state, httpReq, httpResp, probe, mu, written,
                   seen>>

\* isReady, lines 162-171
CheckLatestBlock(u) ==
    /\ pc[u] = "judge"
    /\ err' = [err EXCEPT ![u] = isReadyHealthCheck(blockTrack, block[u], now)]
    /\ pc' = [pc EXCEPT ![u] = "record"]
    /\ waitFrom' = [waitFrom EXCEPT ![u] = now]
    /\ UNCHANGED <<now, cfg, token, rpc, reply, syncInfo, block, blockTrack, state,
                   httpReq, httpResp, advance, probe, mu, written, seen>>

\* the cycles that begin by StartTime + MaxElapsedTwo, each to its end
NextTwoTargets ==
    \E u \in Updaters :
        \/ UpdateWake(u) /\ now' <= StartTime + MaxElapsedTwo
        \/ GetSyncing(u)
        \/ AddLatestBlock(u)
        \/ CheckLatestBlock(u)
        \/ UpdateRecord(u)

SpecTwoTargets == InitTwoTargets /\ [][NextTwoTargets]_vars

\* the tracker that isReady, run by updater u, feeds and consults: the
\* package variable blockTrack, whichever updater runs
TrackerOf(u) == blockTrack

\* C14: with two updaters started for two targets, a block number observed
\* from one target never changes the tracker (lastObservedNumber,
\* lastAdvanceTime) that judges the other target.
C14_TrackerPerTarget ==
    [][\A u \in Updaters : \A v \in Updaters \ {u} :
          (pc[u] = "block" /\ pc'[u] \in {"judge", "record"} /\ pc[v] # "off")
              => TrackerOf(v)' = TrackerOf(v)]_vars

\* a quantity as the node encodes it: "0x" and at least one hex digit
WellFormedHex(s) ==
    HasPrefix0x(s) /\ AfterPrefix(s) # <<>> /\ AllHexDigits(AfterPrefix(s))

\* C15: when the number or the timestamp of the latest block is malformed,
\* the cycle fails with BlockDecodeError and the tracker is after the cycle
\* as it was before: both are decoded before the number is fed to it.
C15_DecodeBeforeObserve ==
    [][\A u \in Updaters :
          (/\ pc[u] = "block"
           /\ pc'[u] = "record"
           /\ getLatestBlock(reply'[u]).err = NoError
           /\ \/ ~WellFormedHex(block'[u].Number)
              \/ ~WellFormedHex(block'[u].Timestamp))
              => /\ err'[u].kind = "BlockDecodeError"
                 /\ blockTrack' = blockTrack]_vars

\* C16: the checks run in the order sync status, sync distance, latest
\* block, tracker, freshness, liveness and the first failure is returned: a
\* block older than the freshness window has its number fed to the tracker
\* in that cycle (the clock is refreshed when the number is a strict
\* advance), and the cycle reports StaleBlock also when the tracker is
\* stalled; a failure in the sync stage is returned before any later check,
\* and a number or timestamp that does not decode before StallDetected.
C16_ChecksInOrder ==
    /\ [](\A u \in Updaters :
            /\ (pc[u] = "record" /\ Len(rpc[u]) = 1) =>
                  /\ err[u].kind \in {"TransportError", "ProtocolError",
                                      "AmbiguousSyncStatus", "SyncLag"}
                  /\ block[u] = ZeroBlock
            /\ (/\ AfterBlock(u)
                /\ getLatestBlock(reply[u]).err = NoError
                /\ ~(blockNumber(block[u]).ok /\ blockTime(block[u]).ok))
                  => err[u].kind = "BlockDecodeError")
    /\ [][\A u \in Updaters :
            (/\ pc[u] = "block"
             /\ pc'[u] = "record"
             /\ getLatestBlock(reply'[u]).err = NoError
             /\ blockNumber(block'[u]).ok
             /\ blockTime(block'[u]).ok
             /\ now' - blockTime(block'[u]).val > FreshnessWindow) =>
                LET n == blockNumber(block'[u]).val
                IN  /\ err'[u] = StaleBlock(now' - blockTime(block'[u]).val)
                    /\ blockTrack' =
                         IF ~HasObserved(blockTrack)
                               \/ n > blockTrack.lastObservedNumber
                         THEN [lastObservedNumber |-> n, lastAdvanceTime |-> now']
                         ELSE blockTrack]_vars

\* a stale block whose number is no advance, read when the tracker is past
\* the stall threshold: the cycle reports StaleBlock
C16_Witness ==
    /\ Decoded(1)
    /\ err[1].kind = "StaleBlock"
    /\ blockNumber(block[1]).val <= blockTrack.lastObservedNumber
    /\ now - blockTrack.lastAdvanceTime > StallThreshold

\* a sync-status body of an expected shape: a boolean result, or a result
\* object whose currentBlock and highestBlock are strings
ExpectedSyncShape(body) ==
    \/ body.shape = "bool"
    \/ /\ body.shape = "object"
       /\ \A name \in {"currentBlock", "highestBlock"} :
             name \in DOMAIN body.fields /\ body.fields[name].t = "string"

\* C17: a sync-status body of neither expected shape (no result member, a
\* null result, a result of another type) fails the cycle with
\* ProtocolError: it gives no SyncInfo and the cycle does not go on.
C17_UnexpectedShapeIsProtocolError ==
    \A u \in Updaters :
        (AfterSync(u) /\ ~FailedReply(u) /\ ~ExpectedSyncShape(reply[u].body)) =>
            /\ err[u] = ProtocolError
            /\ pc[u] = "record"
            /\ syncInfo[u].nil

\* C18: Block.number and Block.time decode every well-formed "0x" string that
\* fits in 64 bits to its value, "0x0" and leading zeros included, and give
\* a parse error for every other string (further 'x' or "0x" in front, no
\* prefix, the empty string).
C18_StrictDecodeExact ==
    (probe.op \in {"number", "time"} /\ probe.done) =>
        IF WellFormedHex(probe.s)
              /\ Significant(AfterPrefix(probe.s)) <= Uint64HexDigits
        THEN probe.ok /\ probe.val = HexValue(AfterPrefix(probe.s))
        ELSE ~probe.ok

\* the errors a cycle can end with before it reaches the tracker
EarlyErrors == {"TransportError", "ProtocolError", "AmbiguousSyncStatus", "SyncLag"}

\* C19: a cycle that fails with TransportError, ProtocolError,
\* AmbiguousSyncStatus or SyncLag leaves the tracker as it was, so its clock
\* keeps running; when a later cycle feeds the tracker a number greater than
\* lastObservedNumber the clock is set to now before the liveness check, and
\* that cycle does not report StallDetected, however long ago the last
\* advance was.
C19_EarlyFailuresKeepTracker ==
    [][\A u \in Updaters :
          /\ (pc[u] \in {"sync", "block"} /\ pc'[u] = "record"
                 /\ err'[u].kind \in EarlyErrors)
                => blockTrack' = blockTrack
          /\ (pc[u] \in {"sleep", "sync", "record"} /\ pc'[u] # pc[u])
                => blockTrack' = blockTrack
          /\ (/\ pc[u] = "block"
              /\ pc'[u] = "record"
              /\ getLatestBlock(reply'[u]).err = NoError
              /\ blockNumber(block'[u]).ok
              /\ blockNumber(block'[u]).val > blockTrack.lastObservedNumber)
                => /\ blockTrack'.lastAdvanceTime = now'
                   /\ blockTrack'.lastObservedNumber = blockNumber(block'[u]).val
                   /\ err'[u].kind # "StallDetected"]_vars

\* a cycle passed and /ready answered 200 (so the tracker held a number),
\* then a cycle was lost to a failed request, and now block 11 is a strict
\* advance, later than the stall threshold after the start: the cycle passes
C19_Witness ==
    /\ pc[1] = "record"
    /\ Len(rpc[1]) = 2
    /\ httpResp[1] = [route |-> "/ready", status |-> 200, body |-> "OK"]
    /\ state = [healthy |-> FALSE, lastError |-> TransportError(0)]
    /\ blockNumber(block[1]).val = 11
    /\ blockTrack = [lastObservedNumber |-> 11, lastAdvanceTime |-> now]
    /\ now = MaxTime
    /\ err[1] = NoError

(***************************************************************************)
(* The poll loop on its own, with its scheduling: the goroutine is run and *)
(* time.Sleep returns.  A request returns, with a reply or with an error,  *)
(* within the timeout of its http.Client when that timeout is positive;    *)
(* with a timeout that is not positive the client sets no time limit and   *)
(* the request returns when the node answers or the connection fails, if   *)
(* ever.  The loop has no end; the clock is followed up to MaxTime.        *)
(***************************************************************************)
InitLoop ==
    /\ BootWith({1}, LoopConfigs)
    /\ probe = NoProbe

NextLoop ==
    \E u \in Updaters :
        \/ UpdateWake(u)
        \/ GetSyncing(u)
        \/ GetLatestBlock(u)
        \/ UpdateRecord(u)

FairLoop ==
    \A u \in Updaters :
        /\ WF_vars(UpdateWake(u))
        /\ WF_vars(cfg.timeout > 0 /\ GetSyncing(u))
        /\ WF_vars(cfg.timeout > 0 /\ GetLatestBlock(u))
        /\ WF_vars(UpdateRecord(u))

SpecLoop == InitLoop /\ [][NextLoop]_vars /\ FairLoop

\* the sleep that updater u is in, or is about to begin, ends by MaxTime
SleepEndsInTime(u) ==
    /\ pc[u] \in {"sleep", "record"}
    /\ WaitEnds(u, PollInterval) <= MaxTime

\* C20: the poll loop never ends and no error stops it: every cycle comes to
\* its end and after it, whatever isReady returned, the loop sleeps and
\* starts another cycle (as long as the clock is followed); each cycle
\* starts with a token minted at that moment when a secret is configured
\* (none otherwise) and sends it with its requests; a cycle that ends with
\* no error leaves the state healthy and only a cycle that ends with an
\* error takes that away, so if from some point on no cycle ends with an
\* error, the state is healthy from some point on for ever.
C20_LoopNeverStops ==
    /\ \A u \in Updaters :
          /\ SleepEndsInTime(u) ~> (pc[u] = "sync")
          /\ (pc[u] \in {"sync", "block"}) ~> (pc[u] = "record")
          /\ (pc[u] = "record") ~> (pc[u] = "sleep")
    /\ [][\A u \in Updaters : pc[u] # "off" => pc'[u] # "off"]_vars
    /\ [][\A u \in Updaters :
            (pc[u] = "sleep" /\ pc'[u] = "sync") =>
                token'[u] = IF cfg.secret THEN genToken(now') ELSE NoToken]_vars
    /\ [](\A u \in Updaters : \A i \in 1..Len(rpc[u]) :
            rpc[u][i].bearer = token[u])
    /\ [][\A u \in Updaters :
            (CycleEnds(u) /\ err[u] = NoError) => IsHealthy(state')]_vars
    /\ [][(IsHealthy(state) /\ ~IsHealthy(state')) =>
            \E u \in Updaters : CycleEnds(u) /\ err[u] # NoError]_vars
    /\ <>[](\A u \in Updaters : pc[u] # "off" => err[u] = NoError)
          => <>[]IsHealthy(state)

=============================================================================
